---- MODULE Spec2Model ----
(***************************************************************************)
(* Model of the job-shop data generation pipeline:                         *)
(*   - _sample_job_lengths   (the Length Partitioner) and                  *)
(*     _ExactMachineSampler  (the Coverage-Constrained Sequence Sampler)   *)
(*     of problem_generators/job_shop_scheduling_generator.py;             *)
(*   - validate_job_shop_solution of                                       *)
(*     validators/job_shop_scheduling_validator.py;                        *)
(*   - ProblemGenerator.generate_problems of                               *)
(*     problem_generators/base_problem_generator.py;                       *)
(*   - parse_job_shop of answer_parsers/job_shop_answer_parser.py.         *)
(* Each has its own specification over the shared variables; the          *)
(* variables of the other components stay at their idle values.            *)
(* Bitmasks over the machines are modelled as sets of machine ids:         *)
(* 1 << a is {a}, x | y is x \cup y, x & ~y is x \ y, 0 is {}.             *)
(* A random source is modelled by the number of draws taken from it, and   *)
(* every rng.choices call is a nondeterministic choice among the entries   *)
(* of positive weight; the probability of the path followed so far is kept *)
(* as the fraction pnum / pden.                                            *)
(***************************************************************************)
EXTENDS Integers, Sequences, FiniteSets, TLC

\* ------------------------------------------------------------------------
\* Bounds of the explored inputs
\* ------------------------------------------------------------------------
MaxN == 3
MaxBound == 3
MaxJobs == 3
MaxLen == 3
MaxM == 3
MaxTotal == 5
MaxStart == 2
MaxSamples == 3
MaxHash == 2
MaxLines == 2
MaxRange == 2

\* "Exact sampler supports <= 10 machines"
MaxMachines == 10

\* the value None of "last" before the first symbol of a sequence
None == -1

VARIABLES
    \* ---- _sample_job_lengths ----
    n, k, l, total,     \* arguments
    residual,           \* local: residual still to distribute
    i,                  \* local: loop index of "for i in range(n - 1)"
    lengths,            \* local: the list being built / returned
    Ncache,             \* keys (r, m) held by the lru_cache of N
    draws,              \* number of rng.choices calls taken from rng
    pnum, pden,         \* probability of the choices made so far
    pcL,                \* position in _sample_job_lengths
    \* ---- _ExactMachineSampler ----
    job_lengths, m,     \* self.job_lengths, self.m
    per_len_counts,     \* self._per_len_counts: length -> (mask -> count)
    missing,            \* sample(): machines not yet covered
    sequences,          \* sample(): the sequences drawn so far
    idx,                \* sample(): index of the job being processed
    cover_mask,         \* _sample_seq(): the mask chosen for the job
    seq, last, rem,     \* _sample_seq(): locals
    pcS,                \* position in __init__ / sample / _sample_seq
    \* ---- validate_job_shop_solution ----
    problem, solution,  \* arguments
    is_valid,           \* returned verdict
    violations,         \* returned dict: violation key -> count
    error_details,      \* returned list: one entry per violation, in order
    pcV,                \* position in validate_job_shop_solution
    \* ---- ProblemGenerator.generate_problems ----
    num_samples, prefix,    \* arguments
    problems,               \* the list being built / returned
    seen_hashes,            \* hashes of the problems taken so far
    sample_i,               \* loop index of "for i in range(num_samples)"
    attempt,                \* loop index of the retry loop
    calls,                  \* problem_id of each generate_problem call, per sample
    warnings,               \* the warnings issued so far
    pcG,                    \* position in generate_problems
    \* ---- parse_job_shop ----
    txt,                \* argument: the answer text, a list of lines
    parsed,             \* the value returned
    pcP,                \* position in parse_job_shop
    \* ---- JobShopProblemCOPGenerator ----
    min_num_jobs, max_num_jobs,             \* self.*: the jobs range
    min_num_machines, max_num_machines,     \* self.*: the machines range
    min_tasks_per_job, max_tasks_per_job,   \* self.*: the tasks range
    min_task_time, max_task_time,           \* self.*: the durations range
    cur_num_jobs, cur_num_machines,         \* generate_problem: the draw of
    cur_min_tasks_per_job,                  \*   _sample_j_m_t (t_max is kept)
    jobs,                                   \* the jobs of the problem returned
    pcC                 \* position in __init__ / generate_problem

lenVars == <<n, k, l, total, residual, i, lengths, Ncache, pnum, pden, pcL>>

seqVars == <<job_lengths, m, per_len_counts, missing, sequences, idx,
             cover_mask, seq, last, rem, pcS>>

valVars == <<problem, solution, is_valid, violations, error_details, pcV>>

genVars == <<num_samples, prefix, problems, seen_hashes, sample_i, attempt,
             calls, warnings, pcG>>

parseVars == <<txt, parsed, pcP>>

copVars == <<min_num_jobs, max_num_jobs, min_num_machines, max_num_machines,
             min_tasks_per_job, max_tasks_per_job, min_task_time, max_task_time,
             cur_num_jobs, cur_num_machines, cur_min_tasks_per_job, jobs, pcC>>

otherVars == <<valVars, genVars, parseVars, copVars>>

vars == <<lenVars, seqVars, draws, otherVars>>

ValIdle ==
    /\ problem = <<>>
    /\ solution = <<>>
    /\ is_valid = TRUE
    /\ violations = <<>>
    /\ error_details = <<>>
    /\ pcV = "idle"

GenIdle ==
    /\ num_samples = 0
    /\ prefix = ""
    /\ problems = <<>>
    /\ seen_hashes = {}
    /\ sample_i = 0
    /\ attempt = 0
    /\ calls = <<>>
    /\ warnings = <<>>
    /\ pcG = "idle"

ParseIdle ==
    /\ txt = <<>>
    /\ parsed = None
    /\ pcP = "idle"

CopIdle ==
    /\ min_num_jobs = 0 /\ max_num_jobs = 0
    /\ min_num_machines = 0 /\ max_num_machines = 0
    /\ min_tasks_per_job = 0 /\ max_tasks_per_job = 0
    /\ min_task_time = 0 /\ max_task_time = 0
    /\ cur_num_jobs = 0
    /\ cur_num_machines = 0
    /\ cur_min_tasks_per_job = 0
    /\ jobs = <<>>
    /\ pcC = "idle"

OtherIdle == ValIdle /\ GenIdle /\ ParseIdle /\ CopIdle

\* ------------------------------------------------------------------------
\* Helpers
\* ------------------------------------------------------------------------
Min(a, b) == IF a <= b THEN a ELSE b

RECURSIVE SumSeq(_)
SumSeq(s) == IF s = <<>> THEN 0 ELSE Head(s) + SumSeq(Tail(s))

RECURSIVE SumOver(_, _)
\* sum of f[x] over the members x of the set S
SumOver(S, f) ==
    IF S = {} THEN 0
    ELSE LET x == CHOOSE y \in S : TRUE IN f[x] + SumOver(S \ {x}, f)

\* ------------------------------------------------------------------------
\* _sample_job_lengths
\* ------------------------------------------------------------------------
\* C = l - k
C == l - k

RECURSIVE N(_, _, _)
\* the nested counting function N(r, m) of _sample_job_lengths, cap c = C
N(c, r, s) ==
    IF r = 0 THEN 1
    ELSE IF s = 0 THEN 0
    ELSE SumOver(0..Min(c, r), [t \in 0..Min(c, r) |-> N(c, r - t, s - 1)])

RECURSIVE NKeys(_, _, _)
\* the keys that one call N(r, m) leaves in the lru_cache
NKeys(c, r, s) ==
    IF r = 0 \/ s = 0 THEN {<<r, s>>}
    ELSE {<<r, s>>} \cup UNION {NKeys(c, r - t, s - 1) : t \in 0..Min(c, r)}

\* upper = min(C, residual)
upper == Min(C, residual)

\* weights = [N(residual - t, n - i - 1) for t in range(upper + 1)]
weights == [t \in 0..upper |-> N(C, residual - t, n - i - 1)]

\* the sequence sampler is not in use
SeqIdle ==
    /\ job_lengths = <<>>
    /\ m = 0
    /\ per_len_counts = <<>>
    /\ missing = {}
    /\ sequences = <<>>
    /\ idx = 0
    /\ cover_mask = {}
    /\ seq = <<>>
    /\ last = None
    /\ rem = {}
    /\ pcS = "idle"

LenInit ==
    /\ n \in 0..MaxN
    /\ k \in 0..MaxBound
    /\ l \in 0..MaxBound
    /\ total \in 0..(MaxN * MaxBound + 1)
    /\ residual = 0
    /\ i = 0
    /\ lengths = <<>>
    /\ Ncache = {}
    /\ draws = 0
    /\ pnum = 1
    /\ pden = 1
    /\ pcL = "start"
    /\ SeqIdle
    /\ OtherIdle

\* sample_job_lengths_check with the upper half of the range check lost
sample_job_lengths_check_lower_only ==
    /\ pcL = "start"
    /\ IF ~(n * k <= total)
       THEN /\ pcL' = "range_error"
            /\ UNCHANGED residual
       ELSE /\ pcL' = "loop"
            /\ residual' = total - n * k
    /\ UNCHANGED <<n, k, l, total, i, lengths, Ncache, draws, pnum, pden>>
    /\ UNCHANGED <<seqVars, otherVars>>

\* lines 23-27: the range check, then C and residual
sample_job_lengths_check ==
    /\ pcL = "start"
    /\ IF ~(n * k <= total /\ total <= n * l)
       THEN /\ pcL' = "range_error"
            /\ UNCHANGED residual
       ELSE /\ pcL' = "loop"
            /\ residual' = total - n * k
    /\ UNCHANGED <<n, k, l, total, i, lengths, Ncache, draws, pnum, pden>>
    /\ UNCHANGED <<seqVars, otherVars>>

\* lines 38-43: one iteration of "for i in range(n - 1)"
sample_job_lengths_draw ==
    /\ pcL = "loop"
    /\ i < n - 1
    /\ Ncache' = Ncache \cup UNION {NKeys(C, residual - t, n - i - 1) : t \in 0..upper}
    /\ draws' = draws + 1
    /\ IF SumOver(0..upper, weights) = 0
       THEN \* rng.choices raises on an empty population or all-zero weights
            /\ pcL' = "choices_error"
            /\ UNCHANGED <<residual, i, lengths, pnum, pden>>
       ELSE \E t \in 0..upper :
            /\ weights[t] > 0
            /\ lengths' = Append(lengths, k + t)
            /\ residual' = residual - t
            /\ i' = i + 1
            /\ pnum' = pnum * weights[t]
            /\ pden' = pden * SumOver(0..upper, weights)
            /\ pcL' = "loop"
    /\ UNCHANGED <<n, k, l, total>>
    /\ UNCHANGED <<seqVars, otherVars>>

\* sample_job_lengths_return without the offset k on the last slot
sample_job_lengths_return_no_offset ==
    /\ pcL = "loop"
    /\ ~(i < n - 1)
    /\ lengths' = Append(lengths, residual)
    /\ pcL' = "done"
    /\ UNCHANGED <<n, k, l, total, residual, i, Ncache, draws, pnum, pden>>
    /\ UNCHANGED <<seqVars, otherVars>>

\* lines 44-45: the last slot absorbs the residual
sample_job_lengths_return ==
    /\ pcL = "loop"
    /\ ~(i < n - 1)
    /\ lengths' = Append(lengths, k + residual)
    /\ pcL' = "done"
    /\ UNCHANGED <<n, k, l, total, residual, i, Ncache, draws, pnum, pden>>
    /\ UNCHANGED <<seqVars, otherVars>>

LenNext ==
    \/ sample_job_lengths_check
    \/ sample_job_lengths_draw
    \/ sample_job_lengths_return

SpecLen == LenInit /\ [][LenNext]_vars

\* ------------------------------------------------------------------------
\* _ExactMachineSampler
\* ------------------------------------------------------------------------
\* range(m)
Machines(mm) == 0..(mm - 1)

\* range(1 << m), every mask as the set of its machines
Masks(mm) == SUBSET Machines(mm)

\* set(job_lengths)
LengthSet(lens) == {lens[j] : j \in 1..Len(lens)}

\* _enumerate_len, lines 67-69: dp_prev[1 << machine][machine] = 1
dp_init(mm) ==
    [mask \in Masks(mm) |->
        [machine \in Machines(mm) |-> IF mask = {machine} THEN 1 ELSE 0]]

\* dp_step without the test "machine == last"
dp_step_allow_repeat(mm, dp_prev) ==
    [mask \in Masks(mm) |->
        [machine \in Machines(mm) |->
            IF machine \in mask
            THEN SumOver(Machines(mm),
                         [lst \in Machines(mm) |->
                             dp_prev[mask][lst] + dp_prev[mask \ {machine}][lst]])
            ELSE 0]]

\* _enumerate_len, lines 71-79: one pass of the loop body; the entry
\* (mask | 1 << machine, machine) collects dp_prev[mask][last], last # machine
dp_step(mm, dp_prev) ==
    [mask \in Masks(mm) |->
        [machine \in Machines(mm) |->
            IF machine \in mask
            THEN SumOver(Machines(mm) \ {machine},
                         [lst \in Machines(mm) |->
                             dp_prev[mask][lst] + dp_prev[mask \ {machine}][lst]])
            ELSE 0]]

RECURSIVE dp_iter(_, _, _)
\* "for _ in range(1, L)": steps passes of the loop body
dp_iter(mm, dp, steps) ==
    IF steps <= 0 THEN dp ELSE dp_iter(mm, dp_step(mm, dp), steps - 1)

\* _enumerate_len(L): the per-mask totals after the loop
enumerate_len(L, mm) ==
    LET dp == dp_iter(mm, dp_init(mm), L - 1)
    IN  [mask \in Masks(mm) |-> SumOver(Machines(mm), dp[mask])]

RECURSIVE count_remaining_jobs_idx_first(_, _, _, _, _)
\* count_remaining_jobs with "no jobs left" tested first and answering 0
count_remaining_jobs_idx_first(lens, mm, tables, ix, miss) ==
    IF ix = Len(lens) THEN 0
    ELSE IF miss = {} THEN 1
    ELSE LET seq_counts == tables[lens[ix + 1]]
             used == {mask \in Masks(mm) : seq_counts[mask] # 0}
         IN  SumOver(used,
                     [mask \in used |->
                         seq_counts[mask]
                           * count_remaining_jobs_idx_first(lens, mm, tables, ix + 1,
                                                            miss \ mask)])

RECURSIVE count_remaining_jobs(_, _, _, _, _)
\* _count_remaining_jobs(idx, missing); idx counts from 0 as in the source
count_remaining_jobs(lens, mm, tables, ix, miss) ==
    IF miss = {} THEN 1
    ELSE IF ix = Len(lens) THEN 0
    ELSE LET seq_counts == tables[lens[ix + 1]]
             used == {mask \in Masks(mm) : seq_counts[mask] # 0}
         IN  SumOver(used,
                     [mask \in used |->
                         seq_counts[mask]
                           * count_remaining_jobs(lens, mm, tables, ix + 1, miss \ mask)])

\* options restricted to masks of machines still missing
options_within_missing(lens, mm, tables, ix, miss) ==
    {mask \in Masks(mm) :
        /\ mask \subseteq miss
        /\ tables[lens[ix + 1]][mask] # 0
        /\ count_remaining_jobs(lens, mm, tables, ix + 1, miss \ mask) # 0}

\* sample(), lines 105-112: the masks of the option list for job ix
options(lens, mm, tables, ix, miss) ==
    {mask \in Masks(mm) :
        /\ tables[lens[ix + 1]][mask] # 0
        /\ count_remaining_jobs(lens, mm, tables, ix + 1, miss \ mask) # 0}

\* sample(), line 112: the weight cnt * rest of an option
option_weight(lens, mm, tables, ix, miss, mask) ==
    tables[lens[ix + 1]][mask]
      * count_remaining_jobs(lens, mm, tables, ix + 1, miss \ mask)

RECURSIVE ways_ignore_mask(_, _, _, _, _)
\* ways with a base case that forgets the machines still to be covered
ways_ignore_mask(L, mm, pos, lst, mask) ==
    IF pos = L THEN 1
    ELSE SumOver(Machines(mm) \ {lst},
                 [machine \in Machines(mm) |->
                     ways_ignore_mask(L, mm, pos + 1, machine, mask \ {machine})])

RECURSIVE ways(_, _, _, _, _)
\* the nested function ways(pos, last, mask) of _sample_seq
ways(L, mm, pos, lst, mask) ==
    IF pos = L THEN (IF mask = {} THEN 1 ELSE 0)
    ELSE SumOver(Machines(mm) \ {lst},
                 [machine \in Machines(mm) |->
                     ways(L, mm, pos + 1, machine, mask \ {machine})])

\* cand without the test "machine == last"
cand_allow_repeat(L, mm, pos, lst, rm) ==
    {machine \in Machines(mm) :
        ways(L, mm, pos + 1, machine, rm \ {machine}) # 0}

\* _sample_seq, lines 137-144: the candidates at position pos
cand(L, mm, pos, lst, rm) ==
    {machine \in Machines(mm) \ {lst} :
        ways(L, mm, pos + 1, machine, rm \ {machine}) # 0}

\* _sample_seq, line 141: the weight of a candidate
wts(L, mm, pos, lst, rm, machine) ==
    ways(L, mm, pos + 1, machine, rm \ {machine})

\* the inputs explored: every length list of at most MaxTotal tasks and
\* every machine count within the bounds, and the two machine counts around
\* the supported maximum
SeqInputs ==
    {<<lens, mm>> : lens \in {ls \in UNION {[1..j -> 0..MaxLen] : j \in 0..MaxJobs} :
                                 SumOver(1..Len(ls), ls) <= MaxTotal},
                    mm \in 0..MaxM}
      \cup {<<lens, mm>> : lens \in {<<1>>, <<2, 1>>},
                           mm \in {MaxMachines, MaxMachines + 1}}

\* the length partitioner is not in use
LenIdle ==
    /\ n = 0 /\ k = 0 /\ l = 0 /\ total = 0
    /\ residual = 0
    /\ i = 0
    /\ lengths = <<>>
    /\ Ncache = {}
    /\ pnum = 1
    /\ pden = 1
    /\ pcL = "idle"

SeqInit ==
    /\ \E inp \in SeqInputs : job_lengths = inp[1] /\ m = inp[2]
    /\ per_len_counts = <<>>
    /\ missing = {}
    /\ sequences = <<>>
    /\ idx = 0
    /\ cover_mask = {}
    /\ seq = <<>>
    /\ last = None
    /\ rem = {}
    /\ pcS = "new"
    /\ draws = 0
    /\ LenIdle
    /\ OtherIdle

\* sampler_init with the ceiling test off by one (>= instead of >)
sampler_init_off_by_one ==
    /\ pcS = "new"
    /\ IF m >= MaxMachines
       THEN /\ pcS' = "capacity_error"
            /\ UNCHANGED per_len_counts
       ELSE /\ per_len_counts' =
                  [L \in LengthSet(job_lengths) |-> enumerate_len(L, m)]
            /\ pcS' = "ready"
    /\ UNCHANGED <<job_lengths, m, missing, sequences, idx, cover_mask,
                   seq, last, rem, draws>>
    /\ UNCHANGED <<lenVars, otherVars>>

\* __init__, lines 54-61
sampler_init ==
    /\ pcS = "new"
    /\ IF m > MaxMachines
       THEN /\ pcS' = "capacity_error"
            /\ UNCHANGED per_len_counts
       ELSE /\ per_len_counts' =
                  [L \in LengthSet(job_lengths) |-> enumerate_len(L, m)]
            /\ pcS' = "ready"
    /\ UNCHANGED <<job_lengths, m, missing, sequences, idx, cover_mask,
                   seq, last, rem, draws>>
    /\ UNCHANGED <<lenVars, otherVars>>

\* sample(), lines 102-103
sample_begin ==
    /\ pcS = "ready"
    /\ missing' = Machines(m)
    /\ sequences' = <<>>
    /\ idx' = 0
    /\ pcS' = "job"
    /\ UNCHANGED <<job_lengths, m, per_len_counts, cover_mask, seq, last, rem, draws>>
    /\ UNCHANGED <<lenVars, otherVars>>

\* sample(), lines 104-117 up to the call of _sample_seq, and line 135
sample_choose_mask ==
    /\ pcS = "job"
    /\ idx < Len(job_lengths)
    /\ LET opts == options(job_lengths, m, per_len_counts, idx, missing)
       IN  IF opts = {}
           THEN /\ pcS' = "no_feasible"
                /\ UNCHANGED <<cover_mask, seq, last, rem, draws>>
           ELSE /\ \E chosen_mask \in opts :
                      /\ cover_mask' = chosen_mask
                      /\ rem' = chosen_mask
                /\ seq' = <<>>
                /\ last' = None
                /\ draws' = draws + 1
                /\ pcS' = "seq"
    /\ UNCHANGED <<job_lengths, m, per_len_counts, missing, sequences, idx>>
    /\ UNCHANGED <<lenVars, otherVars>>

\* _sample_seq, lines 136-148: one iteration of "for pos in range(L)"
sample_seq_step ==
    /\ pcS = "seq"
    /\ Len(seq) < job_lengths[idx + 1]
    /\ LET L == job_lengths[idx + 1]
           cs == cand(L, m, Len(seq), last, rem)
       IN  /\ draws' = draws + 1
           /\ IF cs = {}
              THEN \* rng.choices raises on an empty population
                   /\ pcS' = "choices_error"
                   /\ UNCHANGED <<seq, last, rem>>
              ELSE \E chosen \in cs :
                   /\ seq' = Append(seq, chosen)
                   /\ rem' = rem \ {chosen}
                   /\ last' = chosen
                   /\ pcS' = "seq"
    /\ UNCHANGED <<job_lengths, m, per_len_counts, missing, sequences, idx, cover_mask>>
    /\ UNCHANGED <<lenVars, otherVars>>

\* sample_seq_return leaving the loop as soon as the mask is covered
sample_seq_return_when_covered ==
    /\ pcS = "seq"
    /\ Len(seq) <= job_lengths[idx + 1]
    /\ rem = {}
    /\ sequences' = Append(sequences, seq)
    /\ missing' = missing \ cover_mask
    /\ idx' = idx + 1
    /\ pcS' = "job"
    /\ UNCHANGED <<job_lengths, m, per_len_counts, cover_mask, seq, last, rem, draws>>
    /\ UNCHANGED <<lenVars, otherVars>>

\* _sample_seq, lines 149-150, and sample(), lines 117-118
sample_seq_return ==
    /\ pcS = "seq"
    /\ Len(seq) = job_lengths[idx + 1]
    /\ IF rem # {}
       THEN /\ pcS' = "assert_rem_failed"
            /\ UNCHANGED <<sequences, missing, idx>>
       ELSE /\ sequences' = Append(sequences, seq)
            /\ missing' = missing \ cover_mask
            /\ idx' = idx + 1
            /\ pcS' = "job"
    /\ UNCHANGED <<job_lengths, m, per_len_counts, cover_mask, seq, last, rem, draws>>
    /\ UNCHANGED <<lenVars, otherVars>>

\* sample_return without the assertion "missing == 0"
sample_return_no_assert ==
    /\ pcS = "job"
    /\ idx = Len(job_lengths)
    /\ pcS' = "done"
    /\ UNCHANGED <<job_lengths, m, per_len_counts, missing, sequences, idx,
                   cover_mask, seq, last, rem, draws>>
    /\ UNCHANGED <<lenVars, otherVars>>

\* sample(), lines 119-120
sample_return ==
    /\ pcS = "job"
    /\ idx = Len(job_lengths)
    /\ pcS' = IF missing = {} THEN "done" ELSE "assert_missing_failed"
    /\ UNCHANGED <<job_lengths, m, per_len_counts, missing, sequences, idx,
                   cover_mask, seq, last, rem, draws>>
    /\ UNCHANGED <<lenVars, otherVars>>

SeqNext ==
    \/ sampler_init
    \/ sample_begin
    \/ sample_choose_mask
    \/ sample_seq_step
    \/ sample_seq_return
    \/ sample_return

SpecSeq == SeqInit /\ [][SeqNext]_vars

\* ------------------------------------------------------------------------
\* Properties of _sample_job_lengths
\* ------------------------------------------------------------------------
\* the ordered lists of cnt integers in lo..hi with sum tot, by enumeration
Compositions(cnt, lo, hi, tot) ==
    {s \in [1..cnt -> lo..hi] : SumOver(1..cnt, s) = tot}

Copies(cnt, x) == [j \in 1..cnt |-> x]

\* C3: whenever _sample_job_lengths returns, the result is a list of exactly
\* n integers, each in [k, l], whose sum is total.
C3_ResultIsComposition ==
    pcL = "done" =>
        /\ Len(lengths) = n
        /\ \A j \in 1..Len(lengths) : k <= lengths[j] /\ lengths[j] <= l
        /\ SumSeq(lengths) = total

\* C5: at every step the weight of candidate t is the number of ways to
\* distribute residual - t over the remaining n-i-1 slots, each in [0, C],
\* and every returned list is a composition in [k,l]^n of total, produced
\* with probability exactly 1 / N(total - n*k, n), N(total - n*k, n) being
\* the number of such compositions.
C5_ExactlyUniform ==
    /\ (pcL = "loop" /\ i < n - 1) =>
          \A t \in 0..upper :
              weights[t] = Cardinality(Compositions(n - i - 1, 0, C, residual - t))
    /\ pcL = "done" =>
          /\ lengths \in Compositions(n, k, l, total)
          /\ N(C, total - n * k, n) = Cardinality(Compositions(n, k, l, total))
          /\ pnum * N(C, total - n * k, n) = pden

\* C7: when total < n*k or total > n*l the call ends in the range error,
\* with no value of N computed and no draw taken from the random source.
C7_RangeErrorUpFront ==
    (pcL # "start" /\ (total < n * k \/ total > n * l)) =>
        (pcL = "range_error" /\ Ncache = {} /\ draws = 0)

C7_Witness == pcL = "range_error" /\ total > n * l /\ n > 1

\* C9: with tight bounds the result is n copies of k (total = n*k) and
\* n copies of l (total = n*l), whichever choices the random source makes.
C9_TightBoundsDeterministic ==
    (pcL \notin {"start", "loop"}) =>
        /\ (total = n * k /\ total <= n * l) => (pcL = "done" /\ lengths = Copies(n, k))
        /\ (total = n * l /\ n * k <= total) => (pcL = "done" /\ lengths = Copies(n, l))

\* C11 (as claimed): every element of a returned list is a positive integer.
C11_AllPositive ==
    pcL = "done" => \A j \in 1..Len(lengths) : lengths[j] \in Int /\ lengths[j] >= 1

\* C11 (amended): every element of a returned list is an integer >= k, so
\* it is positive whenever k >= 1.
C11_AtLeastK ==
    pcL = "done" =>
        /\ \A j \in 1..Len(lengths) : lengths[j] \in Int /\ lengths[j] >= k
        /\ k >= 1 => \A j \in 1..Len(lengths) : lengths[j] >= 1

C11_Witness == pcL = "done" /\ k = 1 /\ n = 2 /\ total = 3

\* ------------------------------------------------------------------------
\* Properties of _ExactMachineSampler
\* ------------------------------------------------------------------------
\* the alphabet {0, ..., mm-1}
Alphabet(mm) == 0..(mm - 1)

\* the symbols appearing in a sequence
Symbols(s) == {s[j] : j \in 1..Len(s)}

AdjacentDistinct(s) == \A j \in 1..(Len(s) - 1) : s[j] # s[j + 1]

\* every adjacent-distinct sequence of length L over the alphabet
AdjDistinctSeqs(L, mm) == {s \in [1..L -> Alphabet(mm)] : AdjacentDistinct(s)}

RECURSIVE Assignments(_, _)
\* every list of adjacent-distinct sequences of the given lengths
Assignments(lens, mm) ==
    IF lens = <<>> THEN {<<>>}
    ELSE {<<s>> \o rest : s \in AdjDistinctSeqs(Head(lens), mm),
                          rest \in Assignments(Tail(lens), mm)}

\* the valid global assignments, by brute-force enumeration
ValidAssignments(lens, mm) ==
    {a \in Assignments(lens, mm) :
        UNION {Symbols(a[j]) : j \in 1..Len(a)} = Alphabet(mm)}

\* fractions <<numerator, denominator>> in lowest terms
RECURSIVE Gcd(_, _)
Gcd(a, b) == IF b = 0 THEN a ELSE Gcd(b, a % b)

Frac(a, b) == IF a = 0 THEN <<0, 1>> ELSE <<a \div Gcd(a, b), b \div Gcd(a, b)>>

FMul(p, q) == Frac(p[1] * q[1], p[2] * q[2])

FAdd(p, q) == Frac(p[1] * q[2] + q[1] * p[2], p[2] * q[2])

RECURSIVE FSumOver(_, _)
FSumOver(S, f) ==
    IF S = {} THEN <<0, 1>>
    ELSE LET x == CHOOSE y \in S : TRUE IN FAdd(f[x], FSumOver(S \ {x}, f))

RECURSIVE SeqProbFrom(_, _, _, _, _, _)
\* probability that _sample_seq, at position pos with the given last and
\* rem, completes the sequence s and returns it: the product over the
\* positions of (weight of s[pos] / total weight of the candidates)
SeqProbFrom(L, mm, s, pos, lst, rm) ==
    IF pos = L THEN (IF rm = {} THEN <<1, 1>> ELSE <<0, 1>>)
    ELSE LET cs == cand(L, mm, pos, lst, rm)
             x == s[pos + 1]
             W == SumOver(cs, [c \in cs |-> wts(L, mm, pos, lst, rm, c)])
         IN  IF x \notin cs THEN <<0, 1>>
             ELSE FMul(Frac(wts(L, mm, pos, lst, rm, x), W),
                       SeqProbFrom(L, mm, s, pos + 1, x, rm \ {x}))

RECURSIVE OutProbFrom(_, _, _, _, _, _)
\* probability that sample(), about to process job ix with the given
\* missing, returns the assignment a: the sum over the masks it may choose
\* of (weight of the mask / total weight) times the probability of the
\* sequence given the mask times the probability of the rest
OutProbFrom(lens, mm, tables, a, ix, miss) ==
    IF ix = Len(lens) THEN (IF miss = {} THEN <<1, 1>> ELSE <<0, 1>>)
    ELSE LET opts == options(lens, mm, tables, ix, miss)
             W == SumOver(opts, [o \in opts |->
                                    option_weight(lens, mm, tables, ix, miss, o)])
         IN  FSumOver(opts,
                 [o \in opts |->
                     FMul(Frac(option_weight(lens, mm, tables, ix, miss, o), W),
                          FMul(SeqProbFrom(lens[ix + 1], mm, a[ix + 1], 0, None, o),
                               OutProbFrom(lens, mm, tables, a, ix + 1, miss \ o)))])

\* probability that sample() returns a
OutProb(a) == OutProbFrom(job_lengths, m, per_len_counts, a, 0, Machines(m))

\* C1: whenever sample() returns (m <= 10), the union of the symbols of
\* the returned sequences is the full alphabet {0..m-1}.
C1_UnionIsAlphabet ==
    (pcS = "done" /\ m <= MaxMachines) =>
        UNION {Symbols(sequences[j]) : j \in 1..Len(sequences)} = Alphabet(m)

C1_Witness ==
    /\ pcS = "done"
    /\ m = 3
    /\ Len(sequences) = 2
    /\ Symbols(sequences[1]) = {0, 1}

\* C2: no returned sequence has two equal consecutive symbols.
C2_NoAdjacentEqual ==
    pcS = "done" => \A j \in 1..Len(sequences) : AdjacentDistinct(sequences[j])

C2_Witness ==
    /\ pcS = "done"
    /\ \E j \in 1..Len(sequences) : Len(sequences[j]) = 3 /\ sequences[j][1] = sequences[j][3]

\* C4: for fixed (lengths, m) every valid global assignment is returned by
\* sample() with the same probability.
C4_JointlyUniform ==
    pcS = "ready" =>
        \A a, b \in ValidAssignments(job_lengths, m) : OutProb(a) = OutProb(b)

\* C6: sample() returns len(job_lengths) sequences, the idx-th of length
\* job_lengths[idx], every symbol an integer in [0, m).
C6_ShapeOfResult ==
    pcS = "done" =>
        /\ Len(sequences) = Len(job_lengths)
        /\ \A j \in 1..Len(sequences) :
              /\ Len(sequences[j]) = job_lengths[j]
              /\ \A p \in 1..Len(sequences[j]) :
                    sequences[j][p] \in Int /\ 0 <= sequences[j][p] /\ sequences[j][p] < m

C6_Witness ==
    /\ pcS = "done"
    /\ job_lengths = <<1, 3>>
    /\ m = 2

\* C8: constructing the sampler with m = 10 does not raise the capacity
\* error; with m > 10 it raises it and no per-length table has been computed.
C8_CapacityBoundary ==
    pcS # "new" =>
        /\ m = MaxMachines => pcS # "capacity_error"
        /\ m > MaxMachines => (pcS = "capacity_error" /\ per_len_counts = <<>>)

C8_Witness == pcS = "capacity_error" /\ m = MaxMachines + 1

\* C10: for lengths = [2, 2] and m = 2 the outputs of sample() are exactly
\* the valid global assignments found by enumeration (each is returned with
\* positive probability, and nothing else is returned), and each has the
\* same probability 1 / (number of valid assignments).
C10_SpotCheckUniform ==
    (job_lengths = <<2, 2>> /\ m = 2 /\ pcS \notin {"new", "capacity_error"}) =>
        LET valid == ValidAssignments(<<2, 2>>, 2)
        IN  /\ \A a \in valid : OutProb(a) = Frac(1, Cardinality(valid))
            /\ pcS = "done" => sequences \in valid

C10_Witness ==
    /\ pcS = "done"
    /\ job_lengths = <<2, 2>>
    /\ m = 2
    /\ sequences = << <<0, 1>>, <<1, 0>> >>

\* the adjacent-distinct sequences of length L whose symbols are exactly mask
ExactSeqs(L, mm, mask) == {s \in AdjDistinctSeqs(L, mm) : Symbols(s) = mask}

\* C20: the sequence _sample_seq(L, cover_mask) returns uses exactly the
\* symbols of cover_mask, and every adjacent-distinct sequence of length L
\* with exactly these symbols is returned with the same probability.
C20_ExactMaskUniform ==
    pcS = "seq" =>
        LET L == job_lengths[idx + 1] IN
        /\ (Len(seq) = L /\ rem = {}) => Symbols(seq) = cover_mask
        /\ \A s \in ExactSeqs(L, m, cover_mask) :
               SeqProbFrom(L, m, s, 0, None, cover_mask)
                   = Frac(1, Cardinality(ExactSeqs(L, m, cover_mask)))

RECURSIVE Rest(_, _, _, _)
\* Rest(idx, missing): 1 or 0 at idx = n, else the sum over the masks of
\* count(L_idx, mask) * Rest(idx + 1, missing \ mask), count being the number
\* of adjacent-distinct sequences of length L_idx with exactly that mask
Rest(lens, mm, ix, miss) ==
    IF ix = Len(lens) THEN (IF miss = {} THEN 1 ELSE 0)
    ELSE LET cnt == [mask \in SUBSET Alphabet(mm) |->
                        Cardinality(ExactSeqs(lens[ix + 1], mm, mask))
                          * Rest(lens, mm, ix + 1, miss \ mask)]
         IN  SumOver(SUBSET Alphabet(mm), cnt)

PositiveLengths(lens) == \A j \in 1..Len(lens) : lens[j] >= 1

\* C21: for every idx in 0..n and every missing set,
\* _count_remaining_jobs(idx, missing) equals Rest(idx, missing); stated
\* here for the inputs with m >= 1 whose lengths are all >= 1.
C21_CountEqualsRest ==
    (pcS = "ready" /\ 1 <= m /\ m <= MaxM /\ PositiveLengths(job_lengths)) =>
        \A ix \in 0..Len(job_lengths), miss \in SUBSET Alphabet(m) :
            count_remaining_jobs(job_lengths, m, per_len_counts, ix, miss)
                = Rest(job_lengths, m, ix, miss)

\* the symbols that appear in none of the given sequences
Uncovered(mm, seqs) == Alphabet(mm) \ UNION {Symbols(seqs[j]) : j \in 1..Len(seqs)}

\* C22: when job idx is about to be processed, missing is the set of
\* symbols that appear in none of the sequences drawn for jobs 0..idx-1;
\* stated here for the inputs whose lengths are all >= 1.
C22_MissingIsUncovered ==
    (pcS = "job" /\ PositiveLengths(job_lengths)) =>
        (Len(sequences) = idx /\ missing = Uncovered(m, sequences))

ProperInput(lens, mm) ==
    /\ Len(lens) >= 1
    /\ PositiveLengths(lens)
    /\ mm <= 10

\* C24: for a proper input that has a valid global assignment, sample()
\* never fails: no empty option list, no empty candidate list, no failed
\* assertion.
C24_NeverFails ==
    pcS \in {"no_feasible", "choices_error", "assert_rem_failed",
             "assert_missing_failed"} =>
        ~(ProperInput(job_lengths, m) /\ ValidAssignments(job_lengths, m) # {})

C24_Witness ==
    /\ pcS = "done" /\ job_lengths = <<2, 1, 2>> /\ m = 3
    /\ ValidAssignments(job_lengths, m) # {}

\* C25: for a proper input without any valid global assignment, sample()
\* raises its no-feasible-assignment error at job 0, before any sequence
\* is drawn and before any draw is taken from rng.
C25_FailsFast ==
    (ProperInput(job_lengths, m) /\ pcS \notin {"new", "ready"}
                                 /\ ValidAssignments(job_lengths, m) = {}) =>
        /\ pcS \in {"job", "no_feasible"}
        /\ idx = 0 /\ sequences = <<>> /\ draws = 0

\* a is a valid global assignment for (lens, mm)
IsValidAssignment(a, lens, mm) ==
    /\ Len(a) = Len(lens)
    /\ \A j \in 1..Len(a) :
          /\ Len(a[j]) = lens[j]
          /\ Symbols(a[j]) \subseteq Alphabet(mm)
          /\ AdjacentDistinct(a[j])
    /\ UNION {Symbols(a[j]) : j \in 1..Len(a)} = Alphabet(mm)

RECURSIVE SeqCanReturn(_, _, _, _, _, _)
\* _sample_seq, at position pos with the given last and rem, can complete
\* the sequence s and return it: each symbol of s is a candidate of
\* positive weight at its position, and rem is empty at the end
SeqCanReturn(L, mm, s, pos, lst, rm) ==
    IF pos = L THEN rm = {}
    ELSE /\ s[pos + 1] \in cand(L, mm, pos, lst, rm)
         /\ wts(L, mm, pos, lst, rm, s[pos + 1]) > 0
         /\ SeqCanReturn(L, mm, s, pos + 1, s[pos + 1], rm \ {s[pos + 1]})

RECURSIVE CanReturn(_, _, _, _, _, _)
\* sample(), about to process job ix with the given missing, can return
\* the assignment a: some mask of the option list has a positive weight,
\* lets _sample_seq return a[ix], and lets the rest be returned
CanReturn(lens, mm, tables, a, ix, miss) ==
    IF ix = Len(lens) THEN miss = {}
    ELSE \E o \in Masks(mm) :
            /\ SeqCanReturn(lens[ix + 1], mm, a[ix + 1], 0, None, o)
            /\ o \in options(lens, mm, tables, ix, miss)
            /\ option_weight(lens, mm, tables, ix, miss, o) > 0
            /\ CanReturn(lens, mm, tables, a, ix + 1, miss \ o)

SolutionStatus == {"OPTIMAL", "FEASIBLE", "INFEASIBLE", "NOT_SOLVED", "UNKNOWN"}

\* the members of SolutionStatus are plain str constants, and a str has no
\* attribute "name": evaluating solution.status.name raises AttributeError
has_name(status) == status \notin SolutionStatus

RECURSIVE Flatten(_)
\* concatenation of a list of lists
Flatten(ss) == IF ss = <<>> THEN <<>> ELSE Head(ss) \o Flatten(Tail(ss))

Repeat(key, cnt) == [x \in 1..cnt |-> key]

MaxOf(S) == CHOOSE x \in S : \A y \in S : y <= x

Range(s) == {s[x] : x \in 1..Len(s)}

\* JobShopSchedulingProblem._get_num_machines
num_machines(p) ==
    Cardinality(UNION {{p.jobs[j][t].machine_id : t \in 1..Len(p.jobs[j])} :
                       j \in 1..Len(p.jobs)})

\* the dict sched_by_idx built from a job's list: a later entry replaces an
\* earlier one of the same task_idx
sched_by_idx(sched_list) ==
    [t \in {sched_list[q].task_idx : q \in 1..Len(sched_list)} |->
        sched_list[MaxOf({q \in 1..Len(sched_list) : sched_list[q].task_idx = t})]]

\* one "duplicate_task_idx" per entry whose task_idx was already met
duplicate_checks(sched_list) ==
    Repeat("duplicate_task_idx",
           Cardinality({q \in 1..Len(sched_list) :
                           \E q0 \in 1..(q - 1) :
                               sched_list[q0].task_idx = sched_list[q].task_idx}))

\* the checks of one scheduled task sd against the problem's task ptask
task_checks(sd, ptask, nm) ==
    (IF ~(0 <= sd.machine_id /\ sd.machine_id < nm)
        THEN <<"invalid_machine_id">> ELSE <<>>)
    \o (IF sd.machine_id # ptask.machine_id
        THEN <<"machine_mismatch">> ELSE <<>>)
    \o (IF sd.start < 0 THEN <<"negative_start">> ELSE <<>>)
    \o (IF sd.end <= sd.start THEN <<"non_positive_duration">> ELSE <<>>)
    \o (IF sd.end - sd.start # ptask.duration
        THEN <<"duration_mismatch">> ELSE <<>>)

\* "for t_idx, ptask in enumerate(job.tasks)"
tasks_checks(job, sbi, nm) ==
    Flatten([t \in 1..Len(job) |->
                IF (t - 1) \notin DOMAIN sbi THEN <<"missing_task">>
                ELSE task_checks(sbi[t - 1], job[t], nm)])

\* "for i in range(len(job.tasks) - 1)"
precedence_checks(job, sbi) ==
    Flatten([t \in 1..(Len(job) - 1) |->
                IF /\ (t - 1) \in DOMAIN sbi
                   /\ t \in DOMAIN sbi
                   /\ sbi[t - 1].end > sbi[t].start
                THEN <<"precedence_violation">> ELSE <<>>])

\* the violations registered while job j_idx is processed
job_checks(p, sol, j_idx) ==
    IF j_idx \notin DOMAIN sol.schedule THEN <<"missing_job">>
    ELSE LET job == p.jobs[j_idx + 1]
             sched_list == sol.schedule[j_idx]
             sbi == sched_by_idx(sched_list)
         IN  duplicate_checks(sched_list)
             \o (IF Cardinality(DOMAIN sbi) # Len(job)
                 THEN <<"task_count_mismatch">> ELSE <<>>)
             \o tasks_checks(job, sbi, num_machines(p))
             \o precedence_checks(job, sbi)

\* the triples (m_id, start, end) collected while job j_idx is processed
job_ops(p, sol, j_idx) ==
    IF j_idx \notin DOMAIN sol.schedule THEN <<>>
    ELSE LET job == p.jobs[j_idx + 1]
             sbi == sched_by_idx(sol.schedule[j_idx])
         IN  Flatten([t \in 1..Len(job) |->
                        IF (t - 1) \notin DOMAIN sbi THEN <<>>
                        ELSE << <<sbi[t - 1].machine_id, sbi[t - 1].start,
                                  sbi[t - 1].end>> >>])

all_ops(p, sol) ==
    Flatten([j \in 1..Len(p.jobs) |-> job_ops(p, sol, j - 1)])

\* machine_ops[m_id]: the (start, end) pairs collected for machine m_id
machine_ops(p, sol, mid) ==
    LET mine == SelectSeq(all_ops(p, sol), LAMBDA op : op[1] = mid)
    IN  [q \in 1..Len(mine) |-> <<mine[q][2], mine[q][3]>>]

task_end_times(p, sol) ==
    LET ops == all_ops(p, sol) IN [q \in 1..Len(ops) |-> ops[q][3]]

\* the order of Python tuples (start, end)
tuple_le(a, b) == a[1] < b[1] \/ (a[1] = b[1] /\ a[2] <= b[2])

RECURSIVE insert_op(_, _)
insert_op(x, s) ==
    IF s = <<>> THEN <<x>>
    ELSE IF tuple_le(x, Head(s)) THEN <<x>> \o s
    ELSE <<Head(s)>> \o insert_op(x, Tail(s))

RECURSIVE sort_ops(_)
\* ops.sort()
sort_ops(ops) ==
    IF ops = <<>> THEN <<>> ELSE insert_op(Head(ops), sort_ops(Tail(ops)))

\* machine_overlap_skip_pairs: the overlap loop skipping machines with
\* exactly two operations
machine_overlap_skip_pairs(ops) ==
    /\ ~(Len(ops) <= 2)
    /\ LET sorted == sort_ops(ops)
       IN  \E q \in 1..(Len(sorted) - 1) : sorted[q][2] > sorted[q + 1][1]

\* one machine's pass through the overlap loop: TRUE iff it registers
\* "machine_overlap"
machine_overlap(ops) ==
    /\ ~(Len(ops) < 2)
    /\ LET sorted == sort_ops(ops)
       IN  \E q \in 1..(Len(sorted) - 1) : sorted[q][2] > sorted[q + 1][1]

overlap_checks(p, sol) ==
    LET keys == {op[1] : op \in Range(all_ops(p, sol))}
    IN  Repeat("machine_overlap",
               Cardinality({mid \in keys :
                               machine_overlap(machine_ops(p, sol, mid))}))

calc_ms(p, sol) ==
    IF task_end_times(p, sol) # <<>>
    THEN MaxOf(Range(task_end_times(p, sol))) ELSE None

\* makespan_mismatch_check_greater_only: a reported makespan below the
\* calculated one goes unnoticed
makespan_mismatch_check_greater_only(sol, calc) ==
    IF sol.makespan # None /\ sol.makespan > calc
    THEN <<"makespan_mismatch">> ELSE <<>>

makespan_mismatch_check(sol, calc) ==
    IF sol.makespan # None /\ sol.makespan # calc
    THEN <<"makespan_mismatch">> ELSE <<>>

\* target_check_strict: a makespan equal to the target is rejected
target_check_strict(p, calc) ==
    IF p.makespan_target # None /\ calc >= p.makespan_target
    THEN <<"target_makespan_exceeded">> ELSE <<>>

target_check(p, calc) ==
    IF p.makespan_target # None /\ calc > p.makespan_target
    THEN <<"target_makespan_exceeded">> ELSE <<>>

makespan_checks(p, sol) ==
    LET calc == calc_ms(p, sol)
    IN  IF calc = None THEN <<"no_valid_times">>
        ELSE makespan_mismatch_check(sol, calc) \o target_check(p, calc)

\* infeasible_path_accepts_schedule: the INFEASIBLE path ignoring the schedule
infeasible_path_accepts_schedule(sol) == <<>>

\* the INFEASIBLE path
infeasible_path(sol) ==
    IF DOMAIN sol.schedule # {} THEN <<"non_empty_infeasible">> ELSE <<>>

\* everything registered after the presence checks
schedule_checks(p, sol) ==
    Flatten([j \in 1..Len(p.jobs) |-> job_checks(p, sol, j - 1)])
    \o overlap_checks(p, sol)
    \o makespan_checks(p, sol)

\* dict(violations) for the keys registered in details
violation_counts(details) ==
    [key \in Range(details) |->
        Cardinality({q \in 1..Len(details) : details[q] = key})]

\* ---- the problems and solutions explored ----
Task(mid, d) == [machine_id |-> mid, duration |-> d]

ScheduledTask(t, mid, s, e) ==
    [task_idx |-> t, machine_id |-> mid, start |-> s, end |-> e]

ValJobs ==
    { << <<Task(0, 1), Task(1, 2)>> >>,
      << <<Task(0, 1)>>, <<Task(0, 1)>>, <<Task(0, 1)>> >>,
      << <<Task(1, 1), Task(0, 1)>>, <<Task(0, 2)>> >>,
      << <<Task(1, 1)>> >> }

ValProblems ==
    {[jobs |-> js, makespan_target |-> tg] :
        js \in ValJobs, tg \in {None, MaxStart + 1}}

TotalTasks(js) == SumSeq([j \in 1..Len(js) |-> Len(js[j])])

\* index of task t of job j in the flat numbering of the tasks
Flat(js, j, t) == SumSeq([j0 \in 1..(j - 1) |-> Len(js[j0])]) + t

\* every task scheduled once, on its machine, for its duration, from the
\* start time starts[..]
base_schedule(js, starts) ==
    [j0 \in 0..(Len(js) - 1) |->
        [t \in 1..Len(js[j0 + 1]) |->
            ScheduledTask(t - 1, js[j0 + 1][t].machine_id,
                          starts[Flat(js, j0 + 1, t)],
                          starts[Flat(js, j0 + 1, t)] + js[j0 + 1][t].duration)]]

RemoveAt(s, q) == [x \in 1..(Len(s) - 1) |-> IF x < q THEN s[x] ELSE s[x + 1]]

Restrict(f, S) == [x \in S |-> f[x]]

\* a late operation on machine 0, used for entries the problem does not have
Stray(t) == ScheduledTask(t, 0, 0, MaxStart + 3)

\* the changes of the entry at position t of job j0
OneTaskChanged(sch, j0, t) ==
    LET e == sch[j0][t] IN
    { [sch EXCEPT ![j0] = RemoveAt(@, t)],
      [sch EXCEPT ![j0] = Append(@, e)],
      [sch EXCEPT ![j0][t].end = e.end + 1],
      [sch EXCEPT ![j0][t].end = e.start],
      [sch EXCEPT ![j0][t].start = -1, ![j0][t].end = e.end - e.start - 1] }
    \cup {[sch EXCEPT ![j0][t].machine_id = mid] : mid \in 0..2}

\* the schedules explored: a base schedule, or a base schedule with one change
Changed(js, sch) ==
    {sch, <<>>}
    \cup {Restrict(sch, DOMAIN sch \ {j0}) : j0 \in DOMAIN sch}
    \cup {[sch EXCEPT ![j0] = <<>>] : j0 \in DOMAIN sch}
    \cup {[sch EXCEPT ![j0] = Append(@, Stray(Len(@)))] : j0 \in DOMAIN sch}
    \cup {[j0 \in DOMAIN sch \cup {Len(js)} |->
              IF j0 = Len(js) THEN <<Stray(0)>> ELSE sch[j0]]}
    \cup UNION {UNION {OneTaskChanged(sch, j0, t) : t \in 1..Len(sch[j0])} :
                j0 \in DOMAIN sch}

ValInit ==
    /\ \E p \in ValProblems :
       \E starts \in [1..TotalTasks(p.jobs) -> 0..MaxStart] :
       \E sch \in Changed(p.jobs, base_schedule(p.jobs, starts)) :
       \E st \in SolutionStatus :
       \E ms \in {None} \cup ((MaxStart + 1)..(MaxStart + 2)) :
          /\ problem = p
          /\ solution = [status |-> st, makespan |-> ms, schedule |-> sch]
    /\ is_valid = TRUE
    /\ violations = <<>>
    /\ error_details = <<>>
    /\ pcV = "call"
    /\ LenIdle /\ SeqIdle /\ GenIdle /\ ParseIdle /\ CopIdle
    /\ draws = 0

\* the whole call: the two early exits, then the schedule checks; every
\* v(...) call is fatal, so is_valid is True iff nothing was registered
validate_job_shop_solution ==
    /\ pcV = "call"
    /\ IF solution.status = "INFEASIBLE" THEN
          /\ error_details' = infeasible_path(solution)
          /\ pcV' = "returned"
       ELSE IF DOMAIN solution.schedule = {} THEN
          IF has_name(solution.status)
          THEN /\ error_details' = <<"empty_schedule">>
               /\ pcV' = "returned"
          ELSE /\ error_details' = error_details
               /\ pcV' = "AttributeError"
       ELSE
          /\ error_details' = schedule_checks(problem, solution)
          /\ pcV' = "returned"
    /\ violations' = violation_counts(error_details')
    /\ is_valid' = (error_details' = <<>>)
    /\ UNCHANGED <<problem, solution>>
    /\ UNCHANGED <<lenVars, seqVars, draws, genVars, parseVars, copVars>>

ValNext == validate_job_shop_solution

SpecVal == ValInit /\ [][ValNext]_vars

\* ------------------------------------------------------------------------
\* Properties of validate_job_shop_solution
\* ------------------------------------------------------------------------
JobsOf(p) == 0..(Len(p.jobs) - 1)

TasksOf(p) == {<<j0, t>> \in JobsOf(p) \X (0..TotalTasks(p.jobs)) :
                  t < Len(p.jobs[j0 + 1])}

\* the positions of the schedule that hold task t of job j0
EntriesOf(sol, j0, t) ==
    IF j0 \notin DOMAIN sol.schedule THEN {}
    ELSE {q \in 1..Len(sol.schedule[j0]) : sol.schedule[j0][q].task_idx = t}

EntryOf(sol, j0, t) ==
    sol.schedule[j0][CHOOSE q \in EntriesOf(sol, j0, t) : TRUE]

PTask(p, j0, t) == p.jobs[j0 + 1][t + 1]

ScheduledOnce(p, sol) ==
    \A jt \in TasksOf(p) : Cardinality(EntriesOf(sol, jt[1], jt[2])) = 1

TasksWellPlaced(p, sol) ==
    \A jt \in TasksOf(p) :
        LET e == EntryOf(sol, jt[1], jt[2])
            pt == PTask(p, jt[1], jt[2])
        IN  /\ e.machine_id = pt.machine_id
            /\ e.start \in Int /\ e.end \in Int
            /\ e.start >= 0
            /\ e.end - e.start = pt.duration

PrecedenceKept(p, sol) ==
    \A jt \in TasksOf(p) :
        <<jt[1], jt[2] + 1>> \in TasksOf(p) =>
            EntryOf(sol, jt[1], jt[2]).end <= EntryOf(sol, jt[1], jt[2] + 1).start

NoMachineOverlap(p, sol) ==
    \A jt1 \in TasksOf(p), jt2 \in TasksOf(p) :
        LET e1 == EntryOf(sol, jt1[1], jt1[2])
            e2 == EntryOf(sol, jt2[1], jt2[2])
        IN  (jt1 # jt2 /\ e1.machine_id = e2.machine_id) =>
                (e1.end <= e2.start \/ e2.end <= e1.start)

FeasibleSchedule(p, sol) ==
    /\ ScheduledOnce(p, sol)
    /\ TasksWellPlaced(p, sol)
    /\ PrecedenceKept(p, sol)
    /\ NoMachineOverlap(p, sol)

C13_InfeasiblePath ==
    (pcV # "call" /\ solution.status = "INFEASIBLE") =>
        /\ pcV = "returned"
        /\ IF DOMAIN solution.schedule = {}
           THEN is_valid /\ DOMAIN violations = {} /\ error_details = <<>>
           ELSE /\ ~is_valid
                /\ DOMAIN violations = {"non_empty_infeasible"}
                /\ violations["non_empty_infeasible"] = 1
                /\ Len(error_details) = 1

C13_Witness ==
    /\ pcV = "returned" /\ solution.status = "INFEASIBLE" /\ ~is_valid
    /\ problem.makespan_target # None
    /\ ~FeasibleSchedule(problem, solution)

\* the maximum end time over the scheduled tasks of the problem
Makespan(p, sol) ==
    MaxOf({EntryOf(sol, jt[1], jt[2]).end :
              jt \in {x \in TasksOf(p) : EntriesOf(sol, x[1], x[2]) # {}}})

MachinesInRange(p, sol) ==
    \A jt \in TasksOf(p) :
        LET e == EntryOf(sol, jt[1], jt[2])
        IN  0 <= e.machine_id /\ e.machine_id < num_machines(p)

\* every constraint of the docstring other than the makespan target
OtherConstraints(p, sol) ==
    /\ sol.status # "INFEASIBLE"
    /\ FeasibleSchedule(p, sol)
    /\ MachinesInRange(p, sol)
    /\ \A j0 \in JobsOf(p) : \A q \in 1..Len(sol.schedule[j0]) :
           sol.schedule[j0][q].task_idx < Len(p.jobs[j0 + 1])
    /\ sol.makespan # None => sol.makespan = Makespan(p, sol)

\* C14: with a makespan_target, a schedule meeting every other constraint
\* is judged valid iff its makespan (the maximum end time of the problem's
\* tasks) is <= makespan_target.
C14_TargetDecides ==
    (pcV # "call" /\ problem.makespan_target # None
                  /\ OtherConstraints(problem, solution)) =>
        /\ pcV = "returned"
        /\ is_valid <=> Makespan(problem, solution) <= problem.makespan_target

C14_Witness ==
    /\ pcV = "returned" /\ problem.makespan_target # None
    /\ OtherConstraints(problem, solution)
    /\ Makespan(problem, solution) = problem.makespan_target
    /\ is_valid

SomeTaskScheduled(p, sol) ==
    \E jt \in TasksOf(p) : EntriesOf(sol, jt[1], jt[2]) # {}

\* the end time the validator reads for a task: that of its last entry
LastEnd(sol, j0, t) ==
    sol.schedule[j0][MaxOf(EntriesOf(sol, j0, t))].end

ReadMakespan(p, sol) ==
    MaxOf({LastEnd(sol, jt[1], jt[2]) :
              jt \in {x \in TasksOf(p) : EntriesOf(sol, x[1], x[2]) # {}}})

MakespanMismatch(p, sol) ==
    /\ SomeTaskScheduled(p, sol)
    /\ sol.makespan # None
    /\ sol.makespan # ReadMakespan(p, sol)

C16_EmptyScheduleReported ==
    (pcV # "call" /\ solution.status \in SolutionStatus \ {"INFEASIBLE"}
                  /\ DOMAIN solution.schedule = {}) =>
        /\ pcV = "returned"
        /\ ~is_valid
        /\ DOMAIN violations = {"empty_schedule"}
        /\ violations["empty_schedule"] = 1
        /\ Len(error_details) = 1

\* ------------------------------------------------------------------------
\* ProblemGenerator.generate_problems
\* A candidate returned by generate_problem is [problem_id, hash]: the id it
\* was asked for and the hash of its content.  calls[i + 1] lists, for
\* sample i, every generate_problem call with the id passed and whether the
\* hash of the candidate it returned was in seen_hashes at the time.
\* ------------------------------------------------------------------------
MAX_DUPLICATE_RETRIES == 5

\* f"{prefix}_{i}"
current_problem_id_one_based(pfx, ix) == pfx \o "_" \o ToString(ix + 1)

current_problem_id(pfx, ix) == pfx \o "_" \o ToString(ix)

GenInit ==
    /\ num_samples \in 0..MaxSamples
    /\ prefix \in {"cop", "csp"}
    /\ problems = <<>>
    /\ seen_hashes = {}
    /\ sample_i = 0
    /\ attempt = 0
    /\ calls = <<>>
    /\ warnings = <<>>
    /\ pcG = "for_i"
    /\ LenIdle /\ SeqIdle /\ ValIdle /\ ParseIdle /\ CopIdle
    /\ draws = 0

\* "for i in range(num_samples)": the next sample starts with its id fixed
generate_problems_next_sample ==
    /\ pcG = "for_i"
    /\ sample_i < num_samples
    /\ attempt' = 0
    /\ calls' = Append(calls, <<>>)
    /\ pcG' = "attempt"
    /\ UNCHANGED <<num_samples, prefix, problems, seen_hashes, sample_i, warnings>>
    /\ UNCHANGED <<lenVars, seqVars, draws, valVars, parseVars, copVars>>

\* generate_problems_attempt giving up one retry early
generate_problems_attempt_one_retry_less ==
    /\ pcG = "attempt"
    /\ \E h \in 1..MaxHash :
         LET id == current_problem_id(prefix, sample_i)
             candidate_problem == [problem_id |-> id, hash |-> h]
             seen == h \in seen_hashes
         IN
         /\ calls' = [calls EXCEPT ![sample_i + 1] =
                        Append(@, [problem_id |-> id, seen |-> seen])]
         /\ IF ~seen THEN
               /\ seen_hashes' = seen_hashes \cup {h}
               /\ problems' = Append(problems, candidate_problem)
               /\ sample_i' = sample_i + 1
               /\ pcG' = "for_i"
               /\ UNCHANGED <<attempt, warnings>>
            ELSE IF attempt = MAX_DUPLICATE_RETRIES - 1 THEN
               /\ warnings' = Append(warnings, [category |-> "RuntimeWarning",
                                                problem_id |-> id])
               /\ problems' = Append(problems, candidate_problem)
               /\ sample_i' = sample_i + 1
               /\ pcG' = "for_i"
               /\ UNCHANGED <<attempt, seen_hashes>>
            ELSE
               /\ attempt' = attempt + 1
               /\ UNCHANGED <<problems, seen_hashes, sample_i, warnings, pcG>>
    /\ UNCHANGED <<num_samples, prefix>>
    /\ UNCHANGED <<lenVars, seqVars, draws, valVars, parseVars, copVars>>

\* one pass of "for attempt in range(MAX_DUPLICATE_RETRIES + 1)": a call of
\* generate_problem, and the append to problems when the pass breaks out
generate_problems_attempt ==
    /\ pcG = "attempt"
    /\ \E h \in 1..MaxHash :
         LET id == current_problem_id(prefix, sample_i)
             candidate_problem == [problem_id |-> id, hash |-> h]
             seen == h \in seen_hashes
         IN
         /\ calls' = [calls EXCEPT ![sample_i + 1] =
                        Append(@, [problem_id |-> id, seen |-> seen])]
         /\ IF ~seen THEN
               /\ seen_hashes' = seen_hashes \cup {h}
               /\ problems' = Append(problems, candidate_problem)
               /\ sample_i' = sample_i + 1
               /\ pcG' = "for_i"
               /\ UNCHANGED <<attempt, warnings>>
            ELSE IF attempt = MAX_DUPLICATE_RETRIES THEN
               /\ warnings' = Append(warnings, [category |-> "RuntimeWarning",
                                                problem_id |-> id])
               /\ problems' = Append(problems, candidate_problem)
               /\ sample_i' = sample_i + 1
               /\ pcG' = "for_i"
               /\ UNCHANGED <<attempt, seen_hashes>>
            ELSE
               /\ attempt' = attempt + 1
               /\ UNCHANGED <<problems, seen_hashes, sample_i, warnings, pcG>>
    /\ UNCHANGED <<num_samples, prefix>>
    /\ UNCHANGED <<lenVars, seqVars, draws, valVars, parseVars, copVars>>

\* "return problems"
generate_problems_return ==
    /\ pcG = "for_i"
    /\ ~(sample_i < num_samples)
    /\ pcG' = "done"
    /\ UNCHANGED <<num_samples, prefix, problems, seen_hashes, sample_i,
                   attempt, calls, warnings>>
    /\ UNCHANGED <<lenVars, seqVars, draws, valVars, parseVars, copVars>>

GenNext ==
    \/ generate_problems_next_sample
    \/ generate_problems_attempt
    \/ generate_problems_return

SpecGen == GenInit /\ [][GenNext]_vars

\* ------------------------------------------------------------------------
\* Properties of generate_problems
\* ------------------------------------------------------------------------
Digits == <<"0", "1", "2", "3", "4", "5", "6", "7", "8", "9">>

\* "<prefix>_<i>" for a one-digit i
ExpectedId(ix) == prefix \o "_" \o Digits[ix + 1]

\* C17: the returned list has exactly num_samples problems; the i-th was
\* generated with problem_id "<prefix>_<i>", and so was every candidate
\* generated for sample i.
C17_ExactlyNumSamples ==
    /\ pcG = "done" => Len(problems) = num_samples
    /\ \A ix \in 1..Len(problems) : problems[ix].problem_id = ExpectedId(ix - 1)
    /\ \A ix \in 1..Len(calls) : \A c \in 1..Len(calls[ix]) :
           calls[ix][c].problem_id = ExpectedId(ix - 1)

C17_Witness ==
    /\ pcG = "done" /\ num_samples = MaxSamples
    /\ \E ix \in 1..Len(calls) : Len(calls[ix]) > 1
    /\ \E ix \in 1..Len(problems) : \E iy \in 1..(ix - 1) :
           problems[ix].hash = problems[iy].hash

\* the calls made for a sample that has been settled
SettledCalls(ix) ==
    LET cs == calls[ix] IN
    /\ Len(cs) >= 1 /\ Len(cs) <= MAX_DUPLICATE_RETRIES + 1
    /\ \A c \in 1..(Len(cs) - 1) : cs[c].seen
    /\ cs[Len(cs)].seen => Len(cs) = MAX_DUPLICATE_RETRIES + 1
    /\ cs[Len(cs)].seen <=>
           \E iy \in 1..(ix - 1) : problems[iy].hash = problems[ix].hash

DuplicateSamples == {ix \in 1..Len(problems) : calls[ix][Len(calls[ix])].seen}

\* C18: each sample takes 1 to MAX_DUPLICATE_RETRIES + 1 calls and stops at
\* the first candidate of unseen hash; a candidate of seen hash is taken
\* only as the 6th attempt, and a RuntimeWarning is issued exactly then.
C18_RetryProtocol ==
    /\ \A ix \in 1..Len(problems) : SettledCalls(ix)
    /\ \A ix \in (Len(problems) + 1)..Len(calls) :
           /\ Len(calls[ix]) <= MAX_DUPLICATE_RETRIES
           /\ \A c \in 1..Len(calls[ix]) : calls[ix][c].seen
    /\ Len(warnings) = Cardinality(DuplicateSamples)
    /\ \A w \in 1..Len(warnings) :
           /\ warnings[w].category = "RuntimeWarning"
           /\ \E ix \in DuplicateSamples : warnings[w].problem_id = ExpectedId(ix - 1)
    /\ \A ix \in DuplicateSamples :
           \E w \in 1..Len(warnings) : warnings[w].problem_id = ExpectedId(ix - 1)

C18_Witness ==
    /\ pcG = "done"
    /\ DuplicateSamples # {}
    /\ \E ix \in 1..Len(problems) : ix \notin DuplicateSamples /\ Len(calls[ix]) > 1

\* ------------------------------------------------------------------------
\* parse_job_shop
\* The answer text is a list of lines.  A line is described by what the
\* regular expressions of the parser find in it:
\*   not_feasible  RE_NOT_FEASIBLE matches
\*   makespan_word the word "makespan" occurs, before the line's numbers
\*   optimal_word  the word "optimal" occurs
\*   canon_jid, canon_triples
\*                 RE_JOB_CANON matches with job id canon_jid, and
\*                 RE_TASK_CANON finds canon_triples in the rest (canon_jid
\*                 is None when RE_JOB_CANON does not match)
\*   nums          re.findall(r'\d+', line)
\*   json          "none" for a line without braces, else the dict under
\*                 the key "schedule" of the JSON object the line holds
\* An optional value is [is_none |-> TRUE] or [is_none |-> FALSE, value |-> v].
\* ------------------------------------------------------------------------
Nothing == [is_none |-> TRUE]

Some(v) == [is_none |-> FALSE, value |-> v]

Line(text, nf, mw, ow, cj, ct, ns, js) ==
    [text |-> text, not_feasible |-> nf, makespan_word |-> mw,
     optimal_word |-> ow, canon_jid |-> cj, canon_triples |-> ct,
     nums |-> ns, json |-> js]

AnswerLines ==
    { Line("Not feasible.", TRUE, FALSE, FALSE, None, <<>>, <<>>, Nothing),
      Line("Job 0: (M0, 0, 2)", FALSE, FALSE, FALSE, 0, << <<0, 0, 2>> >>,
           <<0, 0, 0, 2>>, Nothing),
      Line("1 0 2 4", FALSE, FALSE, FALSE, None, <<>>, <<1, 0, 2, 4>>, Nothing),
      Line("0 1 0 3 7", FALSE, FALSE, FALSE, None, <<>>, <<0, 1, 0, 3, 7>>,
           Nothing),
      Line("Optimal makespan: 5", FALSE, TRUE, TRUE, None, <<>>, <<5>>, Nothing),
      Line("I could not find a schedule.", FALSE, FALSE, FALSE, None, <<>>,
           <<>>, Nothing),
      Line("{\"schedule\": {}}", FALSE, FALSE, FALSE, None, <<>>, <<>>,
           Some(<<>>)),
      Line("{\"schedule\": {\"0\": [{\"task_idx\": 0, \"machine_id\": 1, \"start\": 0, \"end\": 2}]}}",
           FALSE, FALSE, FALSE, None, <<>>, <<0, 0, 1, 0, 2>>,
           Some([j0 \in {0} |-> <<ScheduledTask(0, 1, 0, 2)>>])) }

Texts == UNION {[1..len -> AnswerLines] : len \in 0..MaxLines}

\* _build_tasks
build_tasks(triples) ==
    [q \in 1..Len(triples) |->
        ScheduledTask(q - 1, triples[q][1], triples[q][2], triples[q][3])]

\* "schedule or None"
or_none(schedule) == IF DOMAIN schedule = {} THEN Nothing ELSE Some(schedule)

\* _parse_canonical: a later line of the same job id replaces an earlier one
parse_canonical(lines) ==
    LET Keep(ln) == ln.canon_jid # None /\ ln.canon_triples # <<>>
        pos == {q \in 1..Len(lines) : Keep(lines[q])}
    IN  or_none([jid \in {lines[q].canon_jid : q \in pos} |->
                    build_tasks(lines[MaxOf({q \in pos : lines[q].canon_jid = jid})]
                                    .canon_triples)])

\* rest[i:i+3] for i in range(0, len(rest), 3), rest == nums[1:]
loose_triples(nums) ==
    [q \in 1..((Len(nums) - 1) \div 3) |->
        <<nums[3 * q - 1], nums[3 * q], nums[3 * q + 1]>>]

\* _parse_loose (the texts explored have fewer than 10 lines)
parse_loose(lines) ==
    LET Keep(ln) == ~(Len(ln.nums) < 4) /\ ~(((Len(ln.nums) - 1) % 3) # 0)
        pos == {q \in 1..Len(lines) : Keep(lines[q])}
    IN  or_none([jid \in {lines[q].nums[1] : q \in pos} |->
                    build_tasks(loose_triples(
                        lines[MaxOf({q \in pos : lines[q].nums[1] = jid})].nums))])

\* _parse_json: the text between the first "{" and the last "}" is one JSON
\* object only when a single line holds braces
parse_json(lines) ==
    LET pos == {q \in 1..Len(lines) : ~lines[q].json.is_none}
    IN  IF Cardinality(pos) # 1 THEN Nothing
        ELSE lines[CHOOSE q \in pos : TRUE].json

\* _parse_table: RE_TABLE_ROW finds a row iff the line has 4 or more numbers
parse_table(lines) ==
    LET Keep(ln) == Len(ln.nums) >= 4
        rows == SelectSeq(lines, Keep)
    IN  IF rows = <<>> THEN Nothing
        ELSE Some([jid \in {rows[q].nums[1] : q \in 1..Len(rows)} |->
                LET mine == SelectSeq(rows, LAMBDA ln : ln.nums[1] = jid)
                IN  build_tasks([q \in 1..Len(mine) |->
                        <<mine[q].nums[2], mine[q].nums[3], mine[q].nums[4]>>])])

\* "if schedule: break": the first parser with a non-empty dict, else what
\* the last parser returned
first_schedule(lines) ==
    LET truthy(r) == ~r.is_none /\ DOMAIN r.value # {}
    IN  IF truthy(parse_canonical(lines)) THEN parse_canonical(lines)
        ELSE IF truthy(parse_loose(lines)) THEN parse_loose(lines)
        ELSE IF truthy(parse_json(lines)) THEN parse_json(lines)
        ELSE parse_table(lines)

\* _find_makespan: Tier A is the first number after the first "makespan";
\* Tier B is the number of the first line (of the last five) that holds
\* exactly one number; no line explored holds "optimal_makespan" (Tier C)
find_makespan(lines) ==
    LET a == {q \in 1..Len(lines) :
                 \E q0 \in 1..q : lines[q0].makespan_word /\ lines[q].nums # <<>>}
        b == {q \in 1..Len(lines) : Len(lines[q].nums) = 1}
    IN  IF a # {} THEN lines[CHOOSE q \in a : \A q0 \in a : q <= q0].nums[1]
        ELSE IF b # {} THEN lines[CHOOSE q \in b : \A q0 \in b : q <= q0].nums[1]
        ELSE None

\* max(task.end for tasks in schedule.values() for task in tasks)
max_end(schedule) ==
    MaxOf(UNION {{schedule[jid][q].end : q \in 1..Len(schedule[jid])} :
                 jid \in DOMAIN schedule})

\* _decide_status
decide_status(lines, makespan) ==
    IF makespan # None /\ \E q \in 1..Len(lines) : lines[q].optimal_word
    THEN "OPTIMAL" ELSE "FEASIBLE"

ParseInit ==
    /\ txt \in Texts
    /\ parsed = None
    /\ pcP = "call"
    /\ LenIdle /\ SeqIdle /\ ValIdle /\ GenIdle /\ CopIdle
    /\ draws = 0

\* the whole call
parse_job_shop ==
    /\ pcP = "call"
    /\ IF \E q \in 1..Len(txt) : txt[q].not_feasible THEN
          /\ parsed' = Some([status |-> "INFEASIBLE", makespan |-> None,
                             schedule |-> <<>>])
          /\ pcP' = "returned"
       ELSE IF first_schedule(txt).is_none THEN
          /\ parsed' = Nothing
          /\ pcP' = "returned"
       ELSE
          LET schedule == first_schedule(txt).value
              found == find_makespan(txt)
              makespan == IF found = None THEN max_end(schedule) ELSE found
          IN  /\ parsed' = Some([status |-> decide_status(txt, makespan),
                                 makespan |-> makespan,
                                 schedule |-> schedule])
              /\ pcP' = "returned"
    /\ UNCHANGED txt
    /\ UNCHANGED <<lenVars, seqVars, draws, valVars, genVars, copVars>>

ParseNext == parse_job_shop

SpecParse == ParseInit /\ [][ParseNext]_vars

\* ------------------------------------------------------------------------
\* Properties of parse_job_shop
\* ------------------------------------------------------------------------
NoScheduleFound(lines) ==
    /\ parse_canonical(lines).is_none
    /\ parse_loose(lines).is_none
    /\ parse_json(lines).is_none \/ DOMAIN parse_json(lines).value = {}
    /\ parse_table(lines).is_none

\* C19: when the text does not declare the instance infeasible and none of
\* the four schedule parsers finds a schedule, the call raises ValueError.
C19_RaisesValueError ==
    (pcP # "call" /\ ~(\E q \in 1..Len(txt) : txt[q].not_feasible)
                  /\ NoScheduleFound(txt))
        => pcP = "ValueError"

\* ------------------------------------------------------------------------
\* JobShopProblemCOPGenerator: _validate_ranges, _sample_j_m_t and
\* generate_random_jssp_cop
\* ------------------------------------------------------------------------
Max(a, b) == IF a >= b THEN a ELSE b

\* math.ceil(a / b) for a >= 0 and b >= 1
ceil_div(a, b) == (a + b - 1) \div b

\* the (low, high) pairs explored for a range, inverted ones included
RangePairs == (0..MaxRange) \X (0..MaxRange)

\* the constructor arguments explored: every combination of small ranges
\* with unit durations, one instance with a proper and with an empty
\* durations range, and one instance that asks for more machines than the
\* sampler supports
CopInputs ==
    {<<jr, mr, tr, <<1, 1>> >> : jr \in RangePairs, mr \in RangePairs, tr \in RangePairs}
      \cup {<< <<1, 2>>, <<1, 2>>, <<1, 2>>, tt>> : tt \in {<<1, 2>>, <<2, 1>>}}
      \cup {<< <<4, 4>>, <<MaxMachines + 1, MaxMachines + 1>>, <<3, 3>>, <<1, 1>> >>}

CopInit ==
    /\ \E inp \in CopInputs :
          /\ min_num_jobs = inp[1][1] /\ max_num_jobs = inp[1][2]
          /\ min_num_machines = inp[2][1] /\ max_num_machines = inp[2][2]
          /\ min_tasks_per_job = inp[3][1] /\ max_tasks_per_job = inp[3][2]
          /\ min_task_time = inp[4][1] /\ max_task_time = inp[4][2]
    /\ cur_num_jobs = 0
    /\ cur_num_machines = 0
    /\ cur_min_tasks_per_job = 0
    /\ jobs = <<>>
    /\ pcC = "new"
    /\ draws = 0
    /\ LenIdle /\ SeqIdle /\ ValIdle /\ GenIdle /\ ParseIdle

\* _validate_ranges, lines 241-260: the two tests that raise ValueError
ranges_accepted(j_lo, m_lo, m_hi, t_min, t_max) ==
    /\ ~(m_hi > j_lo * t_max)
    /\ ~(j_lo * t_min < m_lo)

\* __init__, lines 298-312: _validate_ranges, then the fields are stored
cop_init ==
    /\ pcC = "new"
    /\ pcC' = IF ranges_accepted(min_num_jobs, min_num_machines, max_num_machines,
                                 min_tasks_per_job, max_tasks_per_job)
              THEN "constructed"
              ELSE "range_error"
    /\ UNCHANGED <<min_num_jobs, max_num_jobs, min_num_machines, max_num_machines,
                   min_tasks_per_job, max_tasks_per_job, min_task_time,
                   max_task_time, cur_num_jobs, cur_num_machines,
                   cur_min_tasks_per_job, jobs>>
    /\ UNCHANGED <<lenVars, seqVars, draws, valVars, genVars, parseVars>>

\* generate_problem, lines 317-322, with _sample_j_m_t, lines 273-283:
\* rng.randint raises ValueError on an empty range, and the division by
\* num_jobs raises ZeroDivisionError when num_jobs is 0
sample_j_m_t ==
    /\ pcC = "constructed"
    /\ IF min_num_jobs > max_num_jobs
       THEN /\ pcC' = "randint_error"
            /\ draws' = draws + 1
            /\ UNCHANGED <<cur_num_jobs, cur_num_machines, cur_min_tasks_per_job>>
       ELSE \E num_jobs \in min_num_jobs..max_num_jobs :
            LET m_hi_eff == Min(max_num_machines, num_jobs * max_tasks_per_job)
            IN  /\ draws' = draws + 2
                /\ IF min_num_machines > m_hi_eff
                   THEN /\ pcC' = "randint_error"
                        /\ UNCHANGED <<cur_num_jobs, cur_num_machines,
                                       cur_min_tasks_per_job>>
                   ELSE \E machines \in min_num_machines..m_hi_eff :
                        IF num_jobs = 0
                        THEN /\ pcC' = "zero_division_error"
                             /\ UNCHANGED <<cur_num_jobs, cur_num_machines,
                                            cur_min_tasks_per_job>>
                        ELSE /\ cur_num_jobs' = num_jobs
                             /\ cur_num_machines' = machines
                             /\ cur_min_tasks_per_job' =
                                    Max(min_tasks_per_job, ceil_div(machines, num_jobs))
                             /\ pcC' = "sampled"
    /\ UNCHANGED <<min_num_jobs, max_num_jobs, min_num_machines, max_num_machines,
                   min_tasks_per_job, max_tasks_per_job, min_task_time,
                   max_task_time, jobs>>
    /\ UNCHANGED <<lenVars, seqVars, valVars, genVars, parseVars>>

\* lower = max(num_jobs * min_tasks_per_job, num_machines), line 168
lower == Max(cur_num_jobs * cur_min_tasks_per_job, cur_num_machines)

\* generate_random_jssp_cop, lines 167-174: the total is drawn and
\* _sample_job_lengths is called
generate_random_jssp_cop_total ==
    /\ pcC = "sampled"
    /\ IF lower > cur_num_jobs * max_tasks_per_job
       THEN /\ pcC' = "bounds_error"
            /\ UNCHANGED <<lenVars, draws>>
       ELSE /\ \E total_tasks \in lower..(cur_num_jobs * max_tasks_per_job) :
                  total' = total_tasks
            /\ n' = cur_num_jobs
            /\ k' = cur_min_tasks_per_job
            /\ l' = max_tasks_per_job
            /\ residual' = 0
            /\ i' = 0
            /\ lengths' = <<>>
            /\ Ncache' = {}
            /\ pnum' = 1
            /\ pden' = 1
            /\ pcL' = "start"
            /\ draws' = draws + 1
            /\ pcC' = "lengths"
    /\ UNCHANGED <<min_num_jobs, max_num_jobs, min_num_machines, max_num_machines,
                   min_tasks_per_job, max_tasks_per_job, min_task_time,
                   max_task_time, cur_num_jobs, cur_num_machines,
                   cur_min_tasks_per_job, jobs>>
    /\ UNCHANGED <<seqVars, valVars, genVars, parseVars>>

\* generate_random_jssp_cop, line 175: the lengths returned are handed to
\* a new _ExactMachineSampler
generate_random_jssp_cop_sampler ==
    /\ pcC = "lengths"
    /\ pcL = "done"
    /\ job_lengths' = lengths
    /\ m' = cur_num_machines
    /\ per_len_counts' = <<>>
    /\ missing' = {}
    /\ sequences' = <<>>
    /\ idx' = 0
    /\ cover_mask' = {}
    /\ seq' = <<>>
    /\ last' = None
    /\ rem' = {}
    /\ pcS' = "new"
    /\ pcC' = "sequences"
    /\ UNCHANGED <<min_num_jobs, max_num_jobs, min_num_machines, max_num_machines,
                   min_tasks_per_job, max_tasks_per_job, min_task_time,
                   max_task_time, cur_num_jobs, cur_num_machines,
                   cur_min_tasks_per_job, jobs>>
    /\ UNCHANGED <<lenVars, draws, valVars, genVars, parseVars>>

\* generate_random_jssp_cop, lines 178-183: one duration is drawn per task
generate_random_jssp_cop_return ==
    /\ pcC = "sequences"
    /\ pcS = "done"
    /\ IF min_task_time > max_task_time /\ Flatten(sequences) # <<>>
       THEN /\ pcC' = "randint_error"
            /\ draws' = draws + 1
            /\ UNCHANGED jobs
       ELSE /\ \E durations \in [1..Len(sequences) ->
                                  [1..MaxOf(LengthSet(job_lengths) \cup {0}) ->
                                      min_task_time..max_task_time]] :
                  jobs' = [j \in 1..Len(sequences) |->
                              [q \in 1..Len(sequences[j]) |->
                                  Task(sequences[j][q], durations[j][q])]]
            /\ draws' = draws + Len(Flatten(sequences))
            /\ pcC' = "done"
    /\ UNCHANGED <<min_num_jobs, max_num_jobs, min_num_machines, max_num_machines,
                   min_tasks_per_job, max_tasks_per_job, min_task_time,
                   max_task_time, cur_num_jobs, cur_num_machines,
                   cur_min_tasks_per_job>>
    /\ UNCHANGED <<lenVars, seqVars, valVars, genVars, parseVars>>

CopNext ==
    \/ cop_init
    \/ sample_j_m_t
    \/ generate_random_jssp_cop_total
    \/ LenNext
    \/ generate_random_jssp_cop_sampler
    \/ SeqNext
    \/ generate_random_jssp_cop_return

SpecCop == CopInit /\ [][CopNext]_vars

\* ------------------------------------------------------------------------
\* Properties of JobShopProblemCOPGenerator
\* ------------------------------------------------------------------------
\* the three ranges have lower bound <= upper bound, and at least one job,
\* one machine and one task per job are asked for
OrdinaryRanges ==
    /\ 1 <= min_num_jobs /\ min_num_jobs <= max_num_jobs
    /\ 1 <= min_num_machines /\ min_num_machines <= max_num_machines
    /\ 1 <= min_tasks_per_job /\ min_tasks_per_job <= max_tasks_per_job
    /\ max_num_machines <= MaxMachines
    /\ min_task_time <= max_task_time

\* C27: when _validate_ranges has accepted ranges with lower bound <= upper
\* bound, nothing raises afterwards: the draw of _sample_j_m_t is made, the
\* total-task range is non-empty, and _sample_job_lengths and
\* _ExactMachineSampler both succeed.
C27_AcceptedRangesNeverFail ==
    (pcC \notin {"new", "range_error"} /\ OrdinaryRanges) =>
        /\ pcC \notin {"randint_error", "zero_division_error", "bounds_error"}
        /\ pcL \notin {"range_error", "choices_error"}
        /\ pcS \notin {"capacity_error", "no_feasible", "choices_error",
                       "assert_rem_failed", "assert_missing_failed"}

====
